---------------------------- MODULE Spec2Model ----------------------------
(***************************************************************************)
(* The client-side session manager of frontend/src/hooks/useAuth.jsx       *)
(* (AuthProvider): the React state it owns, the two localStorage keys it   *)
(* writes, and its asynchronous operations checkAuth, login, register,     *)
(* logout, getCurrentUser and refreshToken.                                *)
(*                                                                         *)
(* Every operation is an async function.  It runs synchronously up to its  *)
(* next `await` of a backend call (one turn of the event loop), and is     *)
(* resumed in a later turn when the backend call resolves or rejects.  A   *)
(* suspended operation is a continuation in the bag `inflight`; one action *)
(* of the model is one such turn.  The handlers themselves are written as  *)
(* pure operators from the state before the turn to the state after it.    *)
(*                                                                         *)
(* Values.  null and undefined are None.  Tokens, users and the strings    *)
(* held by localStorage are TLA+ strings.  Error messages are sequences of *)
(* string pieces, so that Array.prototype.join can be computed; the empty  *)
(* sequence stands for every falsy message (null, undefined, "").  The     *)
(* Vietnamese message literals are written without diacritics.             *)
(*                                                                         *)
(* The module also holds the pure helpers of the auth utilities            *)
(* (formatAuthError, decodeToken, isTokenExpired) and of useAuth.jsx       *)
(* (formatErrorMessage).  They are exercised by NormalizerSpec and         *)
(* TokenSpec, which draw an input in their initial state and apply a       *)
(* function to it; the input and the result are held in `probe`.           *)
(***************************************************************************)
EXTENDS Naturals, Integers, Sequences, FiniteSets, Bags, TLC

\* How many operations may be suspended at a backend call at once.
MaxInFlight == 2

None == "none"

\* Bearer strings the backend may issue, and user records it may return.
Tokens == {"t1", "t2"}
Users == {"u1", "u2"}

\* JS truthiness of a string-or-null value.
Truthy(s) == s # None /\ s # ""

(***************************************************************************)
(* JSON.stringify / JSON.parse on user records.                            *)
(***************************************************************************)
JSONstringify(v) ==
  CASE v = "u1" -> "{\"id\":1}"
    [] v = "u2" -> "{\"id\":2}"
    [] OTHER    -> "undefined"

\* Strings localStorage may hold under the key 'user' that are not JSON.
Malformed == {"{bad"}

JSONparse(s) ==
  IF \E u \in Users : JSONstringify(u) = s
    THEN [ok |-> TRUE, value |-> CHOOSE u \in Users : JSONstringify(u) = s]
    ELSE [ok |-> FALSE, value |-> None]

\* localStorage.setItem coerces the value to a string: undefined -> "undefined".
StoreString(v) == IF v = None THEN "undefined" ELSE v

(***************************************************************************)
(* Error objects and formatErrorMessage.                                   *)
(***************************************************************************)
NoStr == <<>>

\* Variant: the pieces are joined last to first.
Join_Reversed(list) ==
  LET J[i \in 0..Len(list)] ==
        IF i = 0 THEN NoStr
        ELSE IF i = 1 THEN list[Len(list)]
        ELSE J[i - 1] \o <<", ">> \o list[Len(list) + 1 - i]
  IN J[Len(list)]

\* Array.prototype.join(', ')
Join(list) ==
  LET J[i \in 0..Len(list)] ==
        IF i = 0 THEN NoStr
        ELSE IF i = 1 THEN list[1]
        ELSE J[i - 1] \o <<", ">> \o list[i]
  IN J[Len(list)]

\* e.msg || e.message || JSON.stringify(e)
SubErrorText(e) ==
  IF e.msg # NoStr THEN e.msg
  ELSE IF e.message # NoStr THEN e.message
  ELSE <<"{}">>

MapSubErrors(list) == [i \in 1..Len(list) |-> SubErrorText(list[i])]

NoDetail == [kind |-> "none", str |-> NoStr, list |-> <<>>]
DetailStr(s) == [kind |-> "string", str |-> s, list |-> <<>>]
DetailList(l) == [kind |-> "list", str |-> NoStr, list |-> l]

\* errorData?.detail is truthy: a non-empty string, or any array.
DetailTruthy(d) == (d.kind = "string" /\ d.str # NoStr) \/ d.kind = "list"

\* Variant: a response without detail or message falls through to err.message.
formatErrorMessage_OwnMessage(err, defaultMessage) ==
  IF err.response /\ DetailTruthy(err.detail)
    THEN IF err.detail.kind = "list"
           THEN Join(MapSubErrors(err.detail.list))
           ELSE err.detail.str
    ELSE IF err.response /\ err.dataMessage # NoStr
           THEN err.dataMessage
           ELSE IF err.message # NoStr
                  THEN err.message
                  ELSE defaultMessage

\* useAuth.jsx: the normalizer login, register and getCurrentUser use.
formatErrorMessage(err, defaultMessage) ==
  IF err.response
    THEN IF DetailTruthy(err.detail)
           THEN IF err.detail.kind = "list"
                  THEN Join(MapSubErrors(err.detail.list))
                  ELSE err.detail.str
           ELSE IF err.dataMessage # NoStr
                  THEN err.dataMessage
                  ELSE defaultMessage
    ELSE IF err.message # NoStr
           THEN err.message
           ELSE IF err.request
                  THEN <<"Khong the ket noi den server. Vui long kiem tra ket noi.">>
                  ELSE defaultMessage

\* `Loi ${err.response.status}: ${err.response.statusText}`
StatusLine(err) == <<"Loi ", err.status, ": ", err.statusText>>

\* The auth utilities' normalizer (err is an object: a caught error).
formatAuthError(err, defaultMessage) ==
  IF err.response
    THEN IF DetailTruthy(err.detail)
           THEN IF err.detail.kind = "list"
                  THEN Join(MapSubErrors(err.detail.list))
                  ELSE err.detail.str
           ELSE IF err.dataMessage # NoStr
                  THEN err.dataMessage
                  ELSE StatusLine(err)
    ELSE IF err.request /\ ~err.response
           THEN <<"Khong the ket noi den server. Vui long kiem tra ket noi mang.">>
           ELSE IF err.message # NoStr
                  THEN err.message
                  ELSE defaultMessage

NoTokenMessage == <<"Khong nhan duoc token tu server">>
LoginDefault == <<"Dang nhap that bai. Vui long thu lai.">>
RegisterDefault == <<"Dang ky that bai. Vui long thu lai.">>
GetCurrentUserDefault == <<"Khong the lay thong tin nguoi dung">>

\* The failures the backend client (axios) rejects a call with in the state
\* machine: an HTTP 401 with a detail string, and a request that got no response.
BackendErrors == {"auth", "network"}

\* The error object behind each failure; "notoken" is the Error login and
\* register throw themselves.
ErrorObject(e) ==
  CASE e = "auth" ->
         [response |-> TRUE, detail |-> DetailStr(<<"Invalid credentials">>),
          dataMessage |-> NoStr, request |-> TRUE,
          message |-> <<"Request failed with status code 401">>]
    [] e = "validation" ->
         [response |-> TRUE,
          detail |-> DetailList(<<[msg |-> <<"bad email">>, message |-> NoStr],
                                  [msg |-> <<"too short">>, message |-> NoStr]>>),
          dataMessage |-> NoStr, request |-> TRUE,
          message |-> <<"Request failed with status code 422">>]
    [] e = "network" ->
         [response |-> FALSE, detail |-> NoDetail, dataMessage |-> NoStr,
          request |-> TRUE, message |-> <<"Network Error">>]
    [] OTHER ->
         [response |-> FALSE, detail |-> NoDetail, dataMessage |-> NoStr,
          request |-> FALSE, message |-> NoTokenMessage]

(***************************************************************************)
(* decodeToken and isTokenExpired.  A token is what was passed: a string,  *)
(* seen as the segments between its dots, or not a string at all.  A       *)
(* segment is described by what atob and JSON.parse make of it.            *)
(***************************************************************************)
\* What JSON.parse returned: null, a primitive, or an object with or without a
\* truthy exp (seconds since the epoch).
NullClaims == [kind |-> "null", hasExp |-> FALSE, exp |-> 0]
PrimitiveClaims == [kind |-> "primitive", hasExp |-> FALSE, exp |-> 0]
ObjectClaims(hasExp, exp) == [kind |-> "object", hasExp |-> hasExp, exp |-> exp]

\* atob(segment): throws unless the segment is base64.
atob(seg) == [ok |-> seg.b64, text |-> [json |-> seg.json, claims |-> seg.claims]]

\* JSON.parse(text): throws unless the text is JSON.
JSONparsePayload(text) == [ok |-> text.json, value |-> text.claims]

\* Variant: the payload is decoded whatever the number of segments.
decodeToken_AnySegmentCount(token) ==
  IF ~token.isString THEN NullClaims
  ELSE IF Len(token.parts) < 2 THEN NullClaims
  ELSE IF ~atob(token.parts[2]).ok THEN NullClaims
  ELSE IF ~JSONparsePayload(atob(token.parts[2]).text).ok THEN NullClaims
  ELSE JSONparsePayload(atob(token.parts[2]).text).value

\* try { ... } catch (err) { return null; }: token.split throws on a non-string,
\* atob and JSON.parse throw on a bad payload; all are caught.
decodeToken(token) ==
  IF ~token.isString THEN NullClaims
  ELSE IF Len(token.parts) # 3 THEN NullClaims
  ELSE IF ~atob(token.parts[2]).ok THEN NullClaims
  ELSE IF ~JSONparsePayload(atob(token.parts[2]).text).ok THEN NullClaims
  ELSE JSONparsePayload(atob(token.parts[2]).text).value

\* Date.now() and exp * 1000 are milliseconds.
MsPerSecond == 1000
ExpirySkewMs == 60000

\* !decoded || !decoded.exp
NoUsableExpiry(decoded) ==
  decoded.kind # "object" \/ ~decoded.hasExp \/ decoded.exp = 0

\* Variant: the boundary of exactly 60 seconds counts as expired.
isTokenExpired_Inclusive(token, now) ==
  LET decoded == decodeToken(token)
  IN IF NoUsableExpiry(decoded)
       THEN TRUE
       ELSE decoded.exp * MsPerSecond - now <= ExpirySkewMs

isTokenExpired(token, now) ==
  LET decoded == decodeToken(token)
  IN IF NoUsableExpiry(decoded)
       THEN TRUE
       ELSE decoded.exp * MsPerSecond - now < ExpirySkewMs

(***************************************************************************)
(* State.                                                                  *)
(***************************************************************************)
VARIABLES
  user,            \* useState(null): the in-memory user
  loading,         \* useState(true)
  error,           \* useState(null): the last error message
  isCheckingAuth,  \* useState(false): the in-flight flag of checkAuth
  rendered,        \* the state values captured by the callbacks of the last render
  localStorage,    \* the keys 'access_token' and 'user'
  inflight,        \* bag of the operations suspended at a backend call
  last,            \* what the last turn did and how its promise settled
  probe            \* a pure helper's input and result (NormalizerSpec, TokenSpec)

vars == <<user, loading, error, isCheckingAuth, rendered, localStorage, inflight, last,
          probe>>

\* The session manager's own state as one record, the argument of the handlers.
State ==
  [user |-> user, loading |-> loading, error |-> error,
   isCheckingAuth |-> isCheckingAuth, localStorage |-> localStorage]

Commit(st) ==
  /\ user' = st.user
  /\ loading' = st.loading
  /\ error' = st.error
  /\ isCheckingAuth' = st.isCheckingAuth
  /\ localStorage' = st.localStorage

\* A suspended operation: which one, at which await, and the locals it still needs.
Cont(op, at) == [op |-> op, at |-> at, token |-> None, err |-> None]
NoCont == Cont("none", "none")

\* What a turn did: the operation, the path taken, how its promise stands
\* ("pending": suspended at a backend call), what the backend answered in this
\* turn (respUser, respToken, respErr), the value returned ({user, token}, a user
\* or a token), the message of a thrown Error, or the error rethrown as it is.
Obs(op, path, outcome) ==
  [op |-> op, path |-> path, outcome |-> outcome,
   respUser |-> None, respToken |-> None, respErr |-> None,
   user |-> None, token |-> None, message |-> NoStr, err |-> None]
NoObs == Obs("none", "none", "none")

Turn(st, cont, obs) == [st |-> st, cont |-> cont, last |-> obs]

Cleared == [access_token |-> None, user |-> None]

(***************************************************************************)
(* checkAuth.                                                              *)
(***************************************************************************)
\* Variant: the finally block forgets setIsCheckingAuth(false).
CheckAuthFinally_KeepsFlag(st) == [st EXCEPT !.loading = FALSE]

\* finally { setIsCheckingAuth(false); setLoading(false); }
CheckAuthFinally(st) == [st EXCEPT !.isCheckingAuth = FALSE, !.loading = FALSE]

\* From the guard to the first await, or to the end when nothing is awaited.
CheckAuthEnter(st) ==
  LET storedUser == st.localStorage.user
      token == st.localStorage.access_token
      st1 == [st EXCEPT !.isCheckingAuth = TRUE]
  IN IF Truthy(storedUser) /\ Truthy(token)
       THEN IF JSONparse(storedUser).ok
              THEN Turn([st1 EXCEPT !.user = JSONparse(storedUser).value],
                        Cont("checkAuth", "verifyBoth"),
                        Obs("checkAuth", "verifyBoth", "pending"))
              ELSE Turn(CheckAuthFinally([st1 EXCEPT !.localStorage.user = None,
                                                     !.user = None]),
                        NoCont, Obs("checkAuth", "parseError", "resolved"))
       ELSE IF Truthy(token)
              THEN Turn(st1, Cont("checkAuth", "verifyToken"),
                        Obs("checkAuth", "verifyToken", "pending"))
              ELSE Turn(CheckAuthFinally(st1), NoCont,
                        Obs("checkAuth", "noToken", "resolved"))

\* Variant: the fresh record is shown but never written back to localStorage.
CheckAuthVerified_NotPersisted(st, c, u) ==
  Turn(CheckAuthFinally([st EXCEPT !.user = u, !.error = NoStr]),
       NoCont,
       [Obs("checkAuth", c.at, "resolved") EXCEPT !.respUser = u])

\* apiService.getCurrentUser() resolved with u (either branch).
CheckAuthVerified(st, c, u) ==
  Turn(CheckAuthFinally([st EXCEPT !.user = u,
                                   !.localStorage.user = JSONstringify(u),
                                   !.error = NoStr]),
       NoCont,
       [Obs("checkAuth", c.at, "resolved") EXCEPT !.respUser = u])

\* Variant: the token is removed but the stored user is left behind.
CheckAuthInvalid_KeepsStoredUser(st, c, e) ==
  Turn(CheckAuthFinally([st EXCEPT !.localStorage.access_token = None,
                                   !.user = None,
                                   !.error = NoStr]),
       NoCont,
       [Obs("checkAuth", c.at, "resolved") EXCEPT !.respErr = e])

\* apiService.getCurrentUser() rejected with e (either branch).
CheckAuthInvalid(st, c, e) ==
  Turn(CheckAuthFinally([st EXCEPT !.localStorage = Cleared,
                                   !.user = None,
                                   !.error = NoStr]),
       NoCont,
       [Obs("checkAuth", c.at, "resolved") EXCEPT !.respErr = e])

(***************************************************************************)
(* login.                                                                  *)
(***************************************************************************)
LoginEnter(st) ==
  Turn([st EXCEPT !.loading = TRUE, !.error = NoStr],
       Cont("login", "login"), Obs("login", "call", "pending"))

\* catch (err) { ... } finally { setLoading(false); }
LoginCatch(st, err, obs) ==
  LET errorMessage == formatErrorMessage(ErrorObject(err), LoginDefault)
  IN Turn([st EXCEPT !.localStorage = Cleared,
                     !.error = errorMessage,
                     !.loading = FALSE],
          NoCont,
          [obs EXCEPT !.outcome = "rejected", !.message = errorMessage])

\* apiService.login() resolved with {access_token: tok, user: usr}.
LoginResponded(st, c, tok, usr) ==
  LET obs == [Obs("login", "response", "pending")
                EXCEPT !.respToken = tok, !.respUser = usr]
      st1 == [st EXCEPT !.localStorage.access_token = tok]
  IN IF ~Truthy(tok)
       THEN LoginCatch(st, "notoken", [obs EXCEPT !.path = "notoken"])
       ELSE IF Truthy(usr)
              THEN Turn([st1 EXCEPT !.localStorage.user = JSONstringify(usr),
                                    !.user = usr,
                                    !.loading = FALSE],
                        NoCont,
                        [obs EXCEPT !.path = "embedded", !.outcome = "resolved",
                                    !.user = usr, !.token = tok])
              ELSE Turn(st1, [Cont("login", "user") EXCEPT !.token = tok],
                        [obs EXCEPT !.path = "fetching"])

\* apiService.login() rejected with e.
LoginRejected(st, c, e) ==
  LoginCatch(st, e, [Obs("login", "rejected", "pending") EXCEPT !.respErr = e])

\* Variant: the fetched user is persisted but setUser is forgotten.
LoginUserFetched_NoSetUser(st, c, u) ==
  Turn([st EXCEPT !.localStorage.user = JSONstringify(u),
                  !.loading = FALSE],
       NoCont,
       [Obs("login", "fetched", "resolved")
          EXCEPT !.respUser = u, !.user = u, !.token = c.token])

\* The follow-up apiService.getCurrentUser() resolved with u.
LoginUserFetched(st, c, u) ==
  Turn([st EXCEPT !.localStorage.user = JSONstringify(u),
                  !.user = u,
                  !.loading = FALSE],
       NoCont,
       [Obs("login", "fetched", "resolved")
          EXCEPT !.respUser = u, !.user = u, !.token = c.token])

\* Variant: no inner try/catch, the failed fetch reaches login's catch block.
LoginUserFailed_Propagates(st, c, e) ==
  LoginCatch(st, e, [Obs("login", "nouser", "pending")
                       EXCEPT !.respErr = e, !.token = c.token])

\* The follow-up apiService.getCurrentUser() rejected with e: swallowed.
LoginUserFailed(st, c, e) ==
  Turn([st EXCEPT !.loading = FALSE],
       NoCont,
       [Obs("login", "nouser", "resolved")
          EXCEPT !.respErr = e, !.user = None, !.token = c.token])

(***************************************************************************)
(* register.                                                               *)
(***************************************************************************)
RegisterEnter(st) ==
  Turn([st EXCEPT !.loading = TRUE, !.error = NoStr],
       Cont("register", "register"), Obs("register", "call", "pending"))

\* catch (err) { ... } finally { setLoading(false); }
RegisterCatch(st, err, obs) ==
  LET errorMessage == formatErrorMessage(ErrorObject(err), RegisterDefault)
  IN Turn([st EXCEPT !.error = errorMessage,
                     !.loading = FALSE],
          NoCont,
          [obs EXCEPT !.outcome = "rejected", !.message = errorMessage])

\* apiService.register() resolved with {access_token: tok, user: usr}.
RegisterResponded(st, c, tok, usr) ==
  LET obs == [Obs("register", "response", "pending")
                EXCEPT !.respToken = tok, !.respUser = usr]
      st1 == [st EXCEPT !.localStorage.access_token = tok]
  IN IF ~Truthy(tok)
       THEN RegisterCatch(st, "notoken", [obs EXCEPT !.path = "notoken"])
       ELSE IF Truthy(usr)
              THEN Turn([st1 EXCEPT !.localStorage.user = JSONstringify(usr),
                                    !.user = usr,
                                    !.loading = FALSE],
                        NoCont,
                        [obs EXCEPT !.path = "embedded", !.outcome = "resolved",
                                    !.user = usr, !.token = tok])
              ELSE Turn(st1, [Cont("register", "user") EXCEPT !.token = tok],
                        [obs EXCEPT !.path = "fetching"])

\* apiService.register() rejected with e.
RegisterRejected(st, c, e) ==
  RegisterCatch(st, e, [Obs("register", "rejected", "pending") EXCEPT !.respErr = e])

\* The follow-up apiService.getCurrentUser() resolved with u.
RegisterUserFetched(st, c, u) ==
  Turn([st EXCEPT !.localStorage.user = JSONstringify(u),
                  !.user = u,
                  !.loading = FALSE],
       NoCont,
       [Obs("register", "fetched", "resolved")
          EXCEPT !.respUser = u, !.user = u, !.token = c.token])

\* The follow-up apiService.getCurrentUser() rejected with e: swallowed.
RegisterUserFailed(st, c, e) ==
  Turn([st EXCEPT !.loading = FALSE],
       NoCont,
       [Obs("register", "nouser", "resolved")
          EXCEPT !.respErr = e, !.user = None, !.token = c.token])

(***************************************************************************)
(* logout.                                                                 *)
(***************************************************************************)
LogoutEnter(st) ==
  Turn(st, Cont("logout", "logout"), Obs("logout", "call", "pending"))

\* Variant: the storage keys are removed but setUser(null) is forgotten.
LogoutFinally_KeepsUser(st) ==
  [st EXCEPT !.localStorage = Cleared, !.error = NoStr]

\* finally { removeItem('access_token'); removeItem('user'); setUser(null); setError(null); }
LogoutFinally(st) ==
  [st EXCEPT !.localStorage = Cleared, !.user = None, !.error = NoStr]

\* apiService.logout() settled: e = None when it resolved, the error when it
\* rejected (caught and logged).
LogoutSettled(st, c, e) ==
  Turn(LogoutFinally(st), NoCont,
       [Obs("logout", IF e = None THEN "ok" ELSE "caught", "resolved")
          EXCEPT !.respErr = e])

(***************************************************************************)
(* getCurrentUser (the user-detail refresh).                               *)
(***************************************************************************)
GetCurrentUserEnter(st) ==
  Turn([st EXCEPT !.loading = TRUE],
       Cont("getCurrentUser", "user"), Obs("getCurrentUser", "call", "pending"))

GetCurrentUserFetched(st, c, u) ==
  Turn([st EXCEPT !.localStorage.user = JSONstringify(u),
                  !.user = u,
                  !.loading = FALSE],
       NoCont,
       [Obs("getCurrentUser", "fetched", "resolved")
          EXCEPT !.respUser = u, !.user = u])

\* Variant: a failed fetch also tears the session down.
GetCurrentUserFailed_ClearsSession(st, c, e) ==
  Turn([st EXCEPT !.error = formatErrorMessage(ErrorObject(e), GetCurrentUserDefault),
                  !.loading = FALSE,
                  !.user = None,
                  !.localStorage = Cleared],
       NoCont,
       [Obs("getCurrentUser", "failed", "rejected")
          EXCEPT !.respErr = e, !.err = e])

\* catch (err) { setError(...); throw err; } finally { setLoading(false); }
GetCurrentUserFailed(st, c, e) ==
  Turn([st EXCEPT !.error = formatErrorMessage(ErrorObject(e), GetCurrentUserDefault),
                  !.loading = FALSE],
       NoCont,
       [Obs("getCurrentUser", "failed", "rejected")
          EXCEPT !.respErr = e, !.err = e])

(***************************************************************************)
(* refreshToken.                                                           *)
(***************************************************************************)
RefreshEnter(st) ==
  Turn(st, Cont("refreshToken", "refresh"), Obs("refreshToken", "call", "pending"))

\* Variant: the refresh also drops the stored user.
RefreshResponded_DropsStoredUser(st, c, tok) ==
  Turn([st EXCEPT !.localStorage = [access_token |-> StoreString(tok), user |-> None]],
       NoCont,
       [Obs("refreshToken", "response", "resolved")
          EXCEPT !.respToken = tok, !.token = tok])

\* apiService.refreshToken() resolved with {access_token: tok}.
RefreshResponded(st, c, tok) ==
  Turn([st EXCEPT !.localStorage.access_token = StoreString(tok)],
       NoCont,
       [Obs("refreshToken", "response", "resolved")
          EXCEPT !.respToken = tok, !.token = tok])

\* apiService.refreshToken() rejected with e: catch calls logout(), which runs to
\* its own await of apiService.logout().
RefreshRejected(st, c, e) ==
  Turn(LogoutEnter(st).st,
       [Cont("refreshToken", "logout") EXCEPT !.err = e],
       [Obs("refreshToken", "rejected", "pending") EXCEPT !.respErr = e])

\* Variant: the catch block rethrows without calling logout().
RefreshLogoutSettled_SkipsLogout(st, c, e2) ==
  Turn(st,
       NoCont,
       [Obs("refreshToken", "loggedout", "rejected")
          EXCEPT !.respErr = e2, !.err = c.err])

\* The nested logout() finished (its backend call resolved, or rejected with e2):
\* its finally block ran, then refreshToken rethrows the refresh error.
RefreshLogoutSettled(st, c, e2) ==
  Turn(LogoutSettled(st, c, e2).st,
       NoCont,
       [Obs("refreshToken", "loggedout", "rejected")
          EXCEPT !.respErr = e2, !.err = c.err])

(***************************************************************************)
(* isAuthenticated().                                                      *)
(***************************************************************************)
\* Variant: reads the stored user instead of the in-memory one.
isAuthenticated_FromStoredUser ==
  Truthy(localStorage.user) /\ Truthy(localStorage.access_token)

\* return !!user && !!localStorage.getItem('access_token');
isAuthenticated == Truthy(user) /\ Truthy(localStorage.access_token)

(***************************************************************************)
(* The turns of the event loop.                                            *)
(***************************************************************************)
Awaiting(op, at) == {c \in BagToSet(inflight) : c.op = op /\ c.at = at}

\* An operation is called: it runs to its first await (and is then in flight)
\* or to its end.  k bounds the operations in flight.
Begin(k, t) ==
  /\ BagCardinality(inflight) < k
  /\ Commit(t.st)
  /\ inflight' = IF t.cont = NoCont THEN inflight
                 ELSE inflight (+) SetToBag({t.cont})
  /\ last' = t.last
  /\ UNCHANGED <<rendered, probe>>

\* The backend call continuation c awaits settles: c runs to its next await or
\* to its end.
Resume(c, t) ==
  /\ Commit(t.st)
  /\ inflight' = IF t.cont = NoCont THEN inflight (-) SetToBag({c})
                 ELSE (inflight (-) SetToBag({c})) (+) SetToBag({t.cont})
  /\ last' = t.last
  /\ UNCHANGED <<rendered, probe>>

\* if (isCheckingAuth) return;  -- isCheckingAuth is the value the callback
\* captured at the last render (useCallback(..., [isCheckingAuth])).
CheckAuthCall(k) ==
  /\ ~rendered.isCheckingAuth
  /\ Begin(k, CheckAuthEnter(State))

CheckAuthSkip ==
  /\ rendered.isCheckingAuth
  /\ last' = Obs("checkAuth", "guard", "resolved")
  /\ UNCHANGED <<user, loading, error, isCheckingAuth, rendered, localStorage, inflight,
                 probe>>

CheckAuthResolved ==
  \E c \in Awaiting("checkAuth", "verifyBoth") \cup Awaiting("checkAuth", "verifyToken") :
    \E u \in Users : Resume(c, CheckAuthVerified(State, c, u))

CheckAuthRejected ==
  \E c \in Awaiting("checkAuth", "verifyBoth") \cup Awaiting("checkAuth", "verifyToken") :
    \E e \in BackendErrors : Resume(c, CheckAuthInvalid(State, c, e))

LoginCall(k) == Begin(k, LoginEnter(State))

LoginResolved ==
  \E c \in Awaiting("login", "login") :
    \E tok \in Tokens \cup {None}, usr \in Users \cup {None} :
      Resume(c, LoginResponded(State, c, tok, usr))

LoginFailed ==
  \E c \in Awaiting("login", "login") :
    \E e \in BackendErrors : Resume(c, LoginRejected(State, c, e))

LoginUserResolved ==
  \E c \in Awaiting("login", "user") :
    \E u \in Users : Resume(c, LoginUserFetched(State, c, u))

LoginUserRejected ==
  \E c \in Awaiting("login", "user") :
    \E e \in BackendErrors : Resume(c, LoginUserFailed(State, c, e))

RegisterCall(k) == Begin(k, RegisterEnter(State))

RegisterResolved ==
  \E c \in Awaiting("register", "register") :
    \E tok \in Tokens \cup {None}, usr \in Users \cup {None} :
      Resume(c, RegisterResponded(State, c, tok, usr))

RegisterFailed ==
  \E c \in Awaiting("register", "register") :
    \E e \in BackendErrors : Resume(c, RegisterRejected(State, c, e))

RegisterUserResolved ==
  \E c \in Awaiting("register", "user") :
    \E u \in Users : Resume(c, RegisterUserFetched(State, c, u))

RegisterUserRejected ==
  \E c \in Awaiting("register", "user") :
    \E e \in BackendErrors : Resume(c, RegisterUserFailed(State, c, e))

LogoutCall(k) == Begin(k, LogoutEnter(State))

LogoutResolved ==
  \E c \in Awaiting("logout", "logout") : Resume(c, LogoutSettled(State, c, None))

LogoutRejected ==
  \E c \in Awaiting("logout", "logout") :
    \E e \in BackendErrors : Resume(c, LogoutSettled(State, c, e))

GetCurrentUserCall(k) == Begin(k, GetCurrentUserEnter(State))

GetCurrentUserResolved ==
  \E c \in Awaiting("getCurrentUser", "user") :
    \E u \in Users : Resume(c, GetCurrentUserFetched(State, c, u))

GetCurrentUserRejected ==
  \E c \in Awaiting("getCurrentUser", "user") :
    \E e \in BackendErrors : Resume(c, GetCurrentUserFailed(State, c, e))

RefreshCall(k) == Begin(k, RefreshEnter(State))

RefreshResolved ==
  \E c \in Awaiting("refreshToken", "refresh") :
    \E tok \in Tokens \cup {None} : Resume(c, RefreshResponded(State, c, tok))

RefreshFailed ==
  \E c \in Awaiting("refreshToken", "refresh") :
    \E e \in BackendErrors : Resume(c, RefreshRejected(State, c, e))

RefreshLogoutDone ==
  \E c \in Awaiting("refreshToken", "logout") :
    \E e2 \in BackendErrors \cup {None} : Resume(c, RefreshLogoutSettled(State, c, e2))

\* React re-renders AuthProvider after a state change: the callbacks are
\* re-created and capture the current state values.
Render ==
  /\ rendered # [isCheckingAuth |-> isCheckingAuth]
  /\ rendered' = [isCheckingAuth |-> isCheckingAuth]
  /\ UNCHANGED <<user, loading, error, isCheckingAuth, localStorage, inflight, last,
                 probe>>

NoProbe == [fn |-> "none"]

\* After construction: the useState initial values, and whatever an earlier page
\* load (or another writer of the two keys) left in localStorage.
Init ==
  /\ user = None
  /\ loading = TRUE
  /\ error = NoStr
  /\ isCheckingAuth = FALSE
  /\ rendered = [isCheckingAuth |-> FALSE]
  /\ localStorage \in [access_token : Tokens \cup {None},
                       user : {JSONstringify(u) : u \in Users} \cup Malformed \cup {None}]
  /\ inflight = EmptyBag
  /\ last = NoObs
  /\ probe = NoProbe

Settles ==
  \/ CheckAuthResolved
  \/ CheckAuthRejected
  \/ LoginResolved
  \/ LoginFailed
  \/ LoginUserResolved
  \/ LoginUserRejected
  \/ RegisterResolved
  \/ RegisterFailed
  \/ RegisterUserResolved
  \/ RegisterUserRejected
  \/ LogoutResolved
  \/ LogoutRejected
  \/ GetCurrentUserResolved
  \/ GetCurrentUserRejected
  \/ RefreshResolved
  \/ RefreshFailed
  \/ RefreshLogoutDone

Calls(k) ==
  \/ CheckAuthCall(k)
  \/ CheckAuthSkip
  \/ LoginCall(k)
  \/ RegisterCall(k)
  \/ LogoutCall(k)
  \/ GetCurrentUserCall(k)
  \/ RefreshCall(k)

\* Any operation may be called while others are suspended.
Next == Calls(MaxInFlight) \/ Settles \/ Render

Spec == Init /\ [][Next]_vars

\* One operation at a time: an operation is called only when none is in flight
\* ("a correct UI should not invoke more than one identity-mutating operation
\* concurrently").
SeqNext == Calls(1) \/ Settles \/ Render

SeqSpec == Init /\ [][SeqNext]_vars

\* One operation at a time, and every backend call eventually resolves or
\* rejects: a suspended operation is eventually resumed.
LiveSeqSpec == SeqSpec /\ WF_vars(Settles)

(***************************************************************************)
(* The error normalizers applied to every shape of error object.           *)
(***************************************************************************)
\* Longest list of validation sub-errors in a response body.
MaxDetailLen == 2

SubErrors ==
  {[msg |-> <<"bad email">>, message |-> NoStr],
   [msg |-> <<"too short">>, message |-> NoStr],
   [msg |-> NoStr, message |-> <<"required">>]}

Details ==
  {NoDetail, DetailStr(<<"Invalid credentials">>)}
    \cup {DetailList(l) : l \in UNION {[1..n -> SubErrors] : n \in 0..MaxDetailLen}}

OwnMessages == {NoStr, <<"Network Error">>}

\* An error with a response (any body), and an error without one: a request
\* that got no answer, or an Error thrown locally.
ErrorShapes ==
  {[response |-> TRUE, detail |-> d, dataMessage |-> dm, request |-> TRUE,
    message |-> m, status |-> "500", statusText |-> "Internal Server Error"] :
      d \in Details, dm \in {NoStr, <<"Email already registered">>}, m \in OwnMessages}
  \cup
  {[response |-> FALSE, detail |-> NoDetail, dataMessage |-> NoStr, request |-> rq,
    message |-> m, status |-> "", statusText |-> ""] :
      rq \in BOOLEAN, m \in OwnMessages}

\* The session and the continuations play no part in the pure helpers.
SessionIdle ==
  /\ user = None
  /\ loading = TRUE
  /\ error = NoStr
  /\ isCheckingAuth = FALSE
  /\ rendered = [isCheckingAuth |-> FALSE]
  /\ localStorage = Cleared
  /\ inflight = EmptyBag
  /\ last = NoObs

SessionUnchanged ==
  UNCHANGED <<user, loading, error, isCheckingAuth, rendered, localStorage, inflight, last>>

NormalizerInit ==
  /\ SessionIdle
  /\ \E err \in ErrorShapes : probe = [fn |-> "input", err |-> err, out |-> NoStr]

FormatErrorMessageApplied ==
  /\ probe.fn = "input"
  /\ probe' = [probe EXCEPT !.fn = "formatErrorMessage",
                             !.out = formatErrorMessage(probe.err, LoginDefault)]
  /\ SessionUnchanged

FormatAuthErrorApplied ==
  /\ probe.fn = "input"
  /\ probe' = [probe EXCEPT !.fn = "formatAuthError",
                             !.out = formatAuthError(probe.err, LoginDefault)]
  /\ SessionUnchanged

NormalizerNext == FormatErrorMessageApplied \/ FormatAuthErrorApplied

NormalizerSpec == NormalizerInit /\ [][NormalizerNext]_vars

(***************************************************************************)
(* decodeToken and isTokenExpired applied to every shape of token.         *)
(***************************************************************************)
\* Most dot-separated segments in a token string.
MaxSegments == 4

\* exp claims (seconds) and readings of Date.now() (milliseconds).
Exps == {0, 100}
Nows == {0, 39999, 40000, 40001, 200000}

Payloads ==
  {[b64 |-> FALSE, json |-> FALSE, claims |-> NullClaims],
   [b64 |-> TRUE, json |-> FALSE, claims |-> NullClaims],
   [b64 |-> TRUE, json |-> TRUE, claims |-> NullClaims],
   [b64 |-> TRUE, json |-> TRUE, claims |-> PrimitiveClaims],
   [b64 |-> TRUE, json |-> TRUE, claims |-> ObjectClaims(FALSE, 0)]}
  \cup {[b64 |-> TRUE, json |-> TRUE, claims |-> ObjectClaims(TRUE, e)] : e \in Exps}

\* Header and signature segments: never decoded.
Opaque == [b64 |-> TRUE, json |-> FALSE, claims |-> NullClaims]

\* null / undefined / a non-string, and strings of 1..MaxSegments segments.
JwtInputs ==
  {[isString |-> FALSE, parts |-> <<>>]}
  \cup {[isString |-> TRUE, parts |-> [i \in 1..n |-> IF i = 2 THEN p ELSE Opaque]] :
          n \in 1..MaxSegments, p \in Payloads}

TokenInit ==
  /\ SessionIdle
  /\ \E token \in JwtInputs, now \in Nows :
       probe = [fn |-> "input", token |-> token, now |-> now,
                decoded |-> NullClaims, expired |-> FALSE]

DecodeTokenApplied ==
  /\ probe.fn = "input"
  /\ probe' = [probe EXCEPT !.fn = "decodeToken",
                             !.decoded = decodeToken(probe.token)]
  /\ SessionUnchanged

IsTokenExpiredApplied ==
  /\ probe.fn = "input"
  /\ probe' = [probe EXCEPT !.fn = "isTokenExpired",
                             !.decoded = decodeToken(probe.token),
                             !.expired = isTokenExpired(probe.token, probe.now)]
  /\ SessionUnchanged

TokenNext == DecodeTokenApplied \/ IsTokenExpiredApplied

TokenSpec == TokenInit /\ [][TokenNext]_vars

(***************************************************************************)
(* The Login page (pages/AutomationLogs.jsx, second component): its submit *)
(* handler calls the backend and writes the two localStorage keys itself,  *)
(* without going through AuthProvider.                                     *)
(***************************************************************************)
\* setError(''); setLoading(true): the page's own state.  Then the login call.
PageLoginEnter(st) ==
  Turn(st, Cont("pageLogin", "login"), Obs("pageLogin", "call", "pending"))

\* localStorage.setItem("access_token", response.data.access_token);
\* localStorage.setItem("user", JSON.stringify(response.data.user)); navigate(...)
PageLoginResponded(st, c, tok, usr) ==
  Turn([st EXCEPT !.localStorage = [access_token |-> StoreString(tok),
                                    user |-> JSONstringify(usr)]],
       NoCont,
       [Obs("pageLogin", "response", "resolved")
          EXCEPT !.respToken = tok, !.respUser = usr])

\* catch (err) { setError(...) }: the page's own state.
PageLoginRejected(st, c, e) ==
  Turn(st, NoCont, [Obs("pageLogin", "rejected", "resolved") EXCEPT !.respErr = e])

PageLoginCall(k) == Begin(k, PageLoginEnter(State))

PageLoginResolved ==
  \E c \in Awaiting("pageLogin", "login") :
    \E tok \in Tokens \cup {None}, usr \in Users \cup {None} :
      Resume(c, PageLoginResponded(State, c, tok, usr))

PageLoginFailed ==
  \E c \in Awaiting("pageLogin", "login") :
    \E e \in BackendErrors : Resume(c, PageLoginRejected(State, c, e))

\* The application: AuthProvider's operations, one at a time, and the Login page.
AppNext ==
  \/ SeqNext
  \/ PageLoginCall(1)
  \/ PageLoginResolved
  \/ PageLoginFailed

AppSpec == Init /\ [][AppNext]_vars

(***************************************************************************)
(* The store helpers of the auth utilities: the two localStorage keys read *)
(* and written outside AuthProvider.  Each takes the store and returns the *)
(* store after the call, or the value read.                                *)
(***************************************************************************)
\* return localStorage.getItem('access_token');
getAccessToken(store) == store.access_token

\* if (token) setItem('access_token', token) else removeItem('access_token')
setAccessToken(store, token) ==
  IF Truthy(token) THEN [store EXCEPT !.access_token = token]
  ELSE [store EXCEPT !.access_token = None]

\* try { return user ? JSON.parse(user) : null } catch { return null }
getStoredUser(store) ==
  IF ~Truthy(store.user) THEN None
  ELSE IF JSONparse(store.user).ok THEN JSONparse(store.user).value
  ELSE None

\* Variant: a null user leaves the stored entry in place.
setStoredUser_KeepsOnNull(store, u) ==
  IF Truthy(u) THEN [store EXCEPT !.user = JSONstringify(u)]
  ELSE store

\* if (user) setItem('user', JSON.stringify(user)) else removeItem('user')
setStoredUser(store, u) ==
  IF Truthy(u) THEN [store EXCEPT !.user = JSONstringify(u)]
  ELSE [store EXCEPT !.user = None]

\* removeItem('access_token'); removeItem('user');
clearAuthData(store) == [store EXCEPT !.access_token = None, !.user = None]

\* A call of a store helper: the argument, the value returned, the store before
\* the call, and the call made before this one.
StoreCall(fn, arg, out) ==
  [fn |-> fn, arg |-> arg, out |-> out, before |-> localStorage,
   prev |-> [fn |-> probe.fn, arg |-> probe.arg]]

StoreInit ==
  /\ user = None
  /\ loading = TRUE
  /\ error = NoStr
  /\ isCheckingAuth = FALSE
  /\ rendered = [isCheckingAuth |-> FALSE]
  /\ localStorage \in [access_token : Tokens \cup {None},
                       user : {JSONstringify(u) : u \in Users} \cup Malformed \cup {None}]
  /\ inflight = EmptyBag
  /\ last = NoObs
  /\ probe = [fn |-> "none", arg |-> None, out |-> None, before |-> localStorage,
              prev |-> [fn |-> "none", arg |-> None]]

StoreFrame == UNCHANGED <<user, loading, error, isCheckingAuth, rendered, inflight, last>>

GetAccessTokenApplied ==
  /\ probe' = StoreCall("getAccessToken", None, getAccessToken(localStorage))
  /\ UNCHANGED localStorage
  /\ StoreFrame

SetAccessTokenApplied ==
  \E t \in Tokens \cup {None} :
    /\ probe' = StoreCall("setAccessToken", t, None)
    /\ localStorage' = setAccessToken(localStorage, t)
    /\ StoreFrame

GetStoredUserApplied ==
  /\ probe' = StoreCall("getStoredUser", None, getStoredUser(localStorage))
  /\ UNCHANGED localStorage
  /\ StoreFrame

SetStoredUserApplied ==
  \E u \in Users \cup {None} :
    /\ probe' = StoreCall("setStoredUser", u, None)
    /\ localStorage' = setStoredUser(localStorage, u)
    /\ StoreFrame

ClearAuthDataApplied ==
  /\ probe' = StoreCall("clearAuthData", None, None)
  /\ localStorage' = clearAuthData(localStorage)
  /\ StoreFrame

StoreNext ==
  \/ GetAccessTokenApplied
  \/ SetAccessTokenApplied
  \/ GetStoredUserApplied
  \/ SetStoredUserApplied
  \/ ClearAuthDataApplied

StoreSpec == StoreInit /\ [][StoreNext]_vars

(***************************************************************************)
(* Teardown, statement by statement.  logout's finally block (also run by  *)
(* a failed refreshToken) and the catch blocks of checkAuth are the same   *)
(* four statements, with no await between them.                            *)
(***************************************************************************)
TeardownSites == {"logout", "checkAuth", "refreshToken"}

\* Number of statements of a teardown.
TeardownLen == 4

\* Variant: the in-memory user first, then the stored user, then the token.
TeardownStep_StatusFirst(st, pc) ==
  CASE pc = 0 -> [st EXCEPT !.user = None]
    [] pc = 1 -> [st EXCEPT !.localStorage.user = None]
    [] pc = 2 -> [st EXCEPT !.localStorage.access_token = None]
    [] OTHER  -> [st EXCEPT !.error = NoStr]

\* localStorage.removeItem('access_token'); localStorage.removeItem('user');
\* setUser(null); setError(null);
TeardownStep(st, pc) ==
  CASE pc = 0 -> [st EXCEPT !.localStorage.access_token = None]
    [] pc = 1 -> [st EXCEPT !.localStorage.user = None]
    [] pc = 2 -> [st EXCEPT !.user = None]
    [] OTHER  -> [st EXCEPT !.error = NoStr]

\* A teardown is about to run, from any session state.
TeardownInit ==
  /\ user \in Users \cup {None}
  /\ loading = TRUE
  /\ error \in {NoStr, LoginDefault}
  /\ localStorage \in [access_token : Tokens \cup {None},
                       user : {JSONstringify(u) : u \in Users} \cup Malformed \cup {None}]
  /\ inflight = EmptyBag
  /\ last = NoObs
  /\ \E site \in TeardownSites :
       /\ isCheckingAuth = (site = "checkAuth")
       /\ rendered = [isCheckingAuth |-> isCheckingAuth]
       /\ probe = [fn |-> site, pc |-> 0, start |-> State]

TeardownStatement(pc) ==
  /\ probe.pc = pc
  /\ Commit(TeardownStep(State, pc))
  /\ probe' = [probe EXCEPT !.pc = pc + 1]
  /\ UNCHANGED <<rendered, inflight, last>>

RemoveTokenStatement == TeardownStatement(0)
RemoveUserStatement == TeardownStatement(1)
SetUserNullStatement == TeardownStatement(2)
SetErrorNullStatement == TeardownStatement(3)

TeardownNext ==
  \/ RemoveTokenStatement
  \/ RemoveUserStatement
  \/ SetUserNullStatement
  \/ SetErrorNullStatement

TeardownSpec == TeardownInit /\ [][TeardownNext]_vars

(***************************************************************************)
(* Properties.                                                             *)
(*                                                                         *)
(* `last` describes the turn that produced the current state, so a         *)
(* statement about the state in which an operation settles is a state      *)
(* predicate on `last`; a statement that compares it with the state before *)
(* the turn is an action property.  Render leaves `last` and the session   *)
(* unchanged.                                                              *)
(***************************************************************************)
CheckAuthFetchFailed(o) ==
  /\ o.op = "checkAuth"
  /\ o.path \in {"verifyBoth", "verifyToken"}
  /\ o.outcome = "resolved"
  /\ o.respErr # None

CheckAuthFetchSucceeded(o) ==
  /\ o.op = "checkAuth"
  /\ o.path \in {"verifyBoth", "verifyToken"}
  /\ o.outcome = "resolved"
  /\ o.respUser # None

\* The current-user verification calls of checkAuth that are awaiting an answer.
VerificationsInFlight ==
  CopiesIn(Cont("checkAuth", "verifyBoth"), inflight)
    + CopiesIn(Cont("checkAuth", "verifyToken"), inflight)

\* C1: a checkAuth called while an earlier checkAuth has not resolved is a no-op:
\* at no time are two current-user verification calls of checkAuth outstanding.
C1_OneVerificationInFlight == VerificationsInFlight <= 1

\* C2: whenever login rejects, for any cause and any prior session state, no
\* token and no user remain in localStorage and no user remains in memory.
C2_LoginRejectLeavesNothing ==
  (last.op = "login" /\ last.outcome = "rejected")
    => /\ localStorage = Cleared
       /\ user = None

\* C3: when the backend login call resolves without a token, login rejects with
\* the fixed message, and neither the call nor the rejection changes the two
\* localStorage keys or the in-memory user, whatever they were before.
C3_MissingTokenLeavesSessionUntouched ==
  [][ (last'.op = "login" /\ last'.path \in {"call", "notoken"})
        => /\ localStorage' = localStorage
           /\ user' = user
           /\ last'.path = "notoken"
                => (last'.outcome = "rejected" /\ last'.message = NoTokenMessage)
    ]_vars

\* C4: when checkAuth found a stored token and its current-user fetch failed
\* (authentication error or network failure), then as checkAuth completes the
\* in-memory user is absent, both localStorage keys are removed and error is empty.
C4_FailedVerificationClearsSilently ==
  CheckAuthFetchFailed(last)
    => /\ user = None
       /\ localStorage = Cleared
       /\ error = NoStr

C4_Witness ==
  /\ CheckAuthFetchFailed(last)
  /\ last.respErr = "network"
  /\ user = None
  /\ localStorage = Cleared

C6_LogoutAlwaysClears ==
  (last.op = "logout" /\ last.outcome # "pending")
    => /\ last.outcome = "resolved"
       /\ localStorage = Cleared
       /\ user = None

C6_Witness ==
  /\ last.op = "logout"
  /\ last.path = "caught"
  /\ last.respErr = "network"
  /\ last.outcome = "resolved"

SameEnd(a, b) ==
  /\ a.st = b.st
  /\ a.last.outcome = b.last.outcome
  /\ a.last.user = b.last.user
  /\ a.last.token = b.last.token
  /\ a.last.message = b.last.message
  /\ (a.cont = NoCont) = (b.cont = NoCont)
  /\ a.cont.at = "user" <=> b.cont.at = "user"
  /\ a.cont.token = b.cont.token

\* C9: register and login have the same contract and rollback discipline: from
\* the state a suspended register is resumed in, every backend outcome makes
\* register end as login would (same in-memory user, stored token and user,
\* error, and resolve or reject outcome).
C9_RegisterEndsAsLogin ==
  /\ \A c \in Awaiting("register", "register") :
       /\ \A tok \in Tokens \cup {None}, usr \in Users \cup {None} :
            SameEnd(RegisterResponded(State, c, tok, usr),
                    LoginResponded(State, c, tok, usr))
       /\ \A e \in BackendErrors :
            SameEnd(RegisterRejected(State, c, e), LoginRejected(State, c, e))
  /\ \A c \in Awaiting("register", "user") :
       /\ \A u \in Users :
            SameEnd(RegisterUserFetched(State, c, u), LoginUserFetched(State, c, u))
       /\ \A e \in BackendErrors :
            SameEnd(RegisterUserFailed(State, c, e), LoginUserFailed(State, c, e))

\* C10: a refresh that resolves changes neither the in-memory user, nor the
\* stored user, nor error; and when the backend returned a token, the stored
\* token is that token.
C10_RefreshReplacesOnlyToken ==
  [][ (last'.op = "refreshToken" /\ last'.outcome = "resolved")
        => /\ user' = user
           /\ localStorage'.user = localStorage.user
           /\ error' = error
           /\ last'.respToken \in Tokens
                => /\ localStorage'.access_token = last'.respToken
                   /\ last'.token = last'.respToken
    ]_vars

C10_Witness ==
  /\ last.op = "refreshToken"
  /\ last.outcome = "resolved"
  /\ last.respToken = "t2"
  /\ localStorage = [access_token |-> "t2", user |-> JSONstringify("u1")]
  /\ user = "u1"

\* C11: when the backend refresh call rejects, refreshToken rejects with that
\* error, and in the state in which it rejects the session is where logout
\* leaves it: both localStorage keys removed, no in-memory user, error empty.
C11_FailedRefreshIsLogout ==
  (last.op = "refreshToken" /\ last.outcome = "rejected")
    => /\ State = LogoutFinally(State)
       /\ localStorage = Cleared
       /\ user = None
       /\ last.err \in BackendErrors

C11_Witness ==
  /\ last.op = "refreshToken"
  /\ last.outcome = "rejected"
  /\ last.err = "auth"
  /\ localStorage = Cleared
  /\ user = None

C13_AuthenticatedImpliesStored ==
  isAuthenticated
    => /\ Truthy(localStorage.access_token)
       /\ localStorage.user = JSONstringify(user)

\* C14: whenever at least one operation has run, no operation is in flight and
\* there is no in-memory user, localStorage retains neither a token nor a user.
C14_UnauthenticatedStoreIsEmpty ==
  (last.op # "none" /\ inflight = EmptyBag /\ user = None)
    => localStorage = Cleared

\* C15: when checkAuth finds exactly one of the two keys (a stored user and no
\* token, or a token and no stored user), then as it completes both keys are
\* removed and there is no in-memory user.
C15_HalfPairIsCleared ==
  [][ (/\ last'.op = "checkAuth"
       /\ last'.outcome = "resolved"
       /\ \/ last'.path = "noToken" /\ Truthy(localStorage.user)
          \/ last'.path = "verifyToken")
        => /\ localStorage' = Cleared
           /\ user' = None
    ]_vars

\* C16: while login or register is suspended at its follow-up current-user
\* fetch, localStorage never shows a token without a user.
C16_NoTokenWithoutUserWhileAwaiting ==
  (Awaiting("login", "user") \cup Awaiting("register", "user") # {})
    => ~(Truthy(localStorage.access_token) /\ ~Truthy(localStorage.user))

\* The fixed cannot-reach-the-server message of each normalizer.
FixedNetworkMessage(fn) ==
  IF fn = "formatErrorMessage"
    THEN <<"Khong the ket noi den server. Vui long kiem tra ket noi.">>
    ELSE <<"Khong the ket noi den server. Vui long kiem tra ket noi mang.">>

\* C17: for an error of a request that got no response, the normalizer returns
\* the fixed cannot-reach-the-server message, whether or not the error carries
\* its own message.
C17_NoResponseGivesFixedMessage ==
  (probe.fn \in {"formatErrorMessage", "formatAuthError"}
     /\ ~probe.err.response /\ probe.err.request)
    => probe.out = FixedNetworkMessage(probe.fn)

\* The error has a response whose body has neither a detail nor a message.
BareResponse(err) ==
  err.response /\ ~DetailTruthy(err.detail) /\ err.dataMessage = NoStr

\* C18 (as stated): for an error with a response whose body has neither detail
\* nor message, the normalizer returns the error's own message when it has one
\* and the fallback message only when it has none.
C18_BareResponseGivesOwnMessage ==
  (probe.fn \in {"formatErrorMessage", "formatAuthError"} /\ BareResponse(probe.err))
    => probe.out = IF probe.err.message # NoStr THEN probe.err.message
                   ELSE LoginDefault

\* C18 (amended): for such an error the error's own message is never used:
\* formatErrorMessage returns the fallback message and formatAuthError the
\* status line, whether or not the error carries its own message.
C18_BareResponseIgnoresOwnMessage ==
  (probe.fn \in {"formatErrorMessage", "formatAuthError"} /\ BareResponse(probe.err))
    => probe.out = IF probe.fn = "formatErrorMessage" THEN LoginDefault
                   ELSE StatusLine(probe.err)

C18_Witness ==
  /\ probe.fn = "formatErrorMessage"
  /\ BareResponse(probe.err)
  /\ probe.err.message = <<"Network Error">>
  /\ probe.out = LoginDefault

\* The sub-errors' messages, first to last, with ", " between them.
JoinedMessages(list) ==
  LET text(e) == IF e.msg # NoStr THEN e.msg ELSE e.message
      F[i \in 1..Len(list) + 1] ==
        IF i > Len(list) THEN NoStr
        ELSE IF i = Len(list) THEN text(list[i])
        ELSE text(list[i]) \o <<", ">> \o F[i + 1]
  IN F[1]

\* C19: for an error whose response body has a detail list, the normalizer
\* returns the sub-errors' messages joined in order with ", ", whatever the
\* body's message, the request and the error's own message are.
C19_DetailListIsJoined ==
  (probe.fn \in {"formatErrorMessage", "formatAuthError"}
     /\ probe.err.response /\ probe.err.detail.kind = "list")
    => probe.out = JoinedMessages(probe.err.detail.list)

C19_Witness ==
  /\ probe.fn = "formatErrorMessage"
  /\ probe.err.response
  /\ probe.err.detail.kind = "list"
  /\ Len(probe.err.detail.list) = 2
  /\ probe.err.dataMessage # NoStr
  /\ probe.err.message # NoStr
  /\ probe.out = <<"bad email", ", ", "too short">>

\* The token is not a string of exactly three segments, or its middle segment
\* is not base64 of JSON.
Undecodable(token) ==
  \/ ~token.isString
  \/ Len(token.parts) # 3
  \/ ~token.parts[2].b64
  \/ ~token.parts[2].json

HasExpiry(token) ==
  /\ ~Undecodable(token)
  /\ token.parts[2].claims.kind = "object"
  /\ token.parts[2].claims.hasExp

\* Milliseconds from now to the expiry of a token with an exp claim.
UntilExpiry(token, now) == token.parts[2].claims.exp * MsPerSecond - now

\* C21 (as stated): for a decodable token with an expiry, isTokenExpired is
\* false when the expiry is more than 60 seconds ahead and true when it is 60
\* seconds ahead or less, the boundary of exactly 60 seconds included.
C21_ExpiredWithinSkewInclusive ==
  (probe.fn = "isTokenExpired" /\ HasExpiry(probe.token))
    => (probe.expired <=> UntilExpiry(probe.token, probe.now) <= ExpirySkewMs)

\* C21 (amended): isTokenExpired is false when the expiry is 60 seconds ahead
\* or more, the boundary of exactly 60 seconds included, and true when it is
\* less than 60 seconds ahead or in the past.
C21_ExpiredWithinSkewExclusive ==
  (probe.fn = "isTokenExpired" /\ HasExpiry(probe.token))
    => (probe.expired <=> UntilExpiry(probe.token, probe.now) < ExpirySkewMs)

\* Exactly 60 seconds before the expiry: not expired.
C21_Witness ==
  /\ probe.fn = "isTokenExpired"
  /\ HasExpiry(probe.token)
  /\ UntilExpiry(probe.token, probe.now) = ExpirySkewMs
  /\ ~probe.expired

C23_MalformedUserIsCleared ==
  (probe.fn = "getStoredUser" /\ probe.before.user \in Malformed)
    => /\ probe.out = None
       /\ localStorage.user = None

\* The operations of the session manager.
SessionOps ==
  {"checkAuth", "login", "register", "logout", "getCurrentUser", "refreshToken"}

\* C24: the session manager's operations are the sole writer of the two
\* localStorage keys: every step that changes a key is a turn of one of them.
C24_SessionManagerIsSoleWriter ==
  [][ localStorage' # localStorage => last'.op \in SessionOps ]_vars

\* C25 (as stated): on every teardown the in-memory user is cleared first, then
\* the stored user, then the stored token: the stored user is gone only when
\* the in-memory user is, and the stored token only when both are.
C25_StatusThenUserThenToken ==
  probe.fn \in TeardownSites
    => /\ localStorage.user # probe.start.localStorage.user => user = None
       /\ localStorage.access_token # probe.start.localStorage.access_token
            => (user = None /\ localStorage.user = None)

\* C25 (amended): on every teardown the stored token is removed first, then
\* the stored user, then the in-memory user is cleared: the stored user is
\* gone only when the token is, and the in-memory user only when both are;
\* after the last statement the session is where logout leaves it.
C25_TokenThenUserThenStatus ==
  probe.fn \in TeardownSites
    => /\ localStorage.user # probe.start.localStorage.user
            => localStorage.access_token = None
       /\ user # probe.start.user
            => (localStorage.access_token = None /\ localStorage.user = None)
       /\ probe.pc = TeardownLen
            => [user |-> user, error |-> error, localStorage |-> localStorage]
                 = [user |-> None, error |-> NoStr, localStorage |-> Cleared]

\* After the first statement of a teardown of an authenticated session.
C25_Witness ==
  /\ probe.fn = "logout"
  /\ probe.pc = 1
  /\ probe.start.user = "u1"
  /\ probe.start.localStorage = [access_token |-> "t1", user |-> JSONstringify("u1")]
  /\ localStorage = [access_token |-> None, user |-> JSONstringify("u1")]
  /\ user = "u1"

\* login resolved with a token and a user, both stored and the user in memory.
LoginEstablished(o) ==
  /\ o.op = "login"
  /\ o.outcome = "resolved"
  /\ o.path \in {"embedded", "fetched"}

\* C26: a checkAuth whose current-user fetch fails right after a login has
\* resolved with a session does not erase it: the stored token, the stored user
\* and the in-memory user stay as the login left them.
C26_LateCheckAuthKeepsLogin ==
  [][ (LoginEstablished(last) /\ CheckAuthFetchFailed(last'))
        => /\ localStorage' = localStorage
           /\ user' = user
    ]_vars

\* The turn in which a suspended checkAuth, getCurrentUser or login (at its
\* current-user fetch) completes.
LateCompletion(o) ==
  \/ CheckAuthFetchSucceeded(o)
  \/ CheckAuthFetchFailed(o)
  \/ o.op = "getCurrentUser" /\ o.path \in {"fetched", "failed"}
  \/ o.op = "login" /\ o.path \in {"fetched", "nouser"}

\* C27: an operation that was in flight when logout resolved and completes
\* next leaves no user in memory and neither key in localStorage.
C27_LogoutIsFinal ==
  [][ (last.op = "logout" /\ last.outcome = "resolved" /\ LateCompletion(last'))
        => /\ user' = None
           /\ localStorage' = Cleared
    ]_vars

\* C28: a refreshToken that resolves hands the caller a token the backend
\* issued and leaves such a token in localStorage, never a missing or
\* placeholder value.
C28_RefreshNeverStoresMissingToken ==
  (last.op = "refreshToken" /\ last.outcome = "resolved")
    => /\ last.token \in Tokens
       /\ localStorage.access_token \in Tokens

\* C30: when getCurrentUser fails, the in-memory user and both localStorage keys
\* are as they were, error is the normalized message and the backend error is
\* rethrown; when it succeeds, the in-memory user and the stored user are the
\* fetched record and the stored token is as it was.
C30_GetCurrentUserFrame ==
  [][ /\ (last'.op = "getCurrentUser" /\ last'.outcome = "rejected")
           => /\ user' = user
              /\ localStorage' = localStorage
              /\ error' = formatErrorMessage(ErrorObject(last'.respErr),
                                             GetCurrentUserDefault)
              /\ error' # NoStr
              /\ last'.err = last'.respErr
              /\ last'.err \in BackendErrors
      /\ (last'.op = "getCurrentUser" /\ last'.outcome = "resolved")
           => /\ user' = last'.respUser
              /\ last'.user = last'.respUser
              /\ localStorage'.user = JSONstringify(last'.respUser)
              /\ localStorage'.access_token = localStorage.access_token
    ]_vars

C30_Witness ==
  /\ last.op = "getCurrentUser"
  /\ last.outcome = "rejected"
  /\ last.err = "auth"
  /\ error = <<"Invalid credentials">>
  /\ user = "u1"
  /\ localStorage = [access_token |-> "t1", user |-> JSONstringify("u1")]

\* The operation has completed: its promise is settled, loading is false and,
\* for checkAuth, the in-flight flag is false.
Completed(op) ==
  /\ last.op = op
  /\ last.outcome \in {"resolved", "rejected"}
  /\ ~loading
  /\ op = "checkAuth" => ~isCheckingAuth

\* An operation suspended at a backend call eventually completes.
Completes(op) == (last.op = op /\ last.outcome = "pending") ~> Completed(op)

\* C29: provided every backend call eventually settles, every checkAuth that
\* passed the guard, login, register and getCurrentUser eventually completes
\* with loading false, and checkAuth with isCheckingAuth false as well, on the
\* success path and on every failure path.
C29_OperationsComplete ==
  /\ Completes("checkAuth")
  /\ Completes("login")
  /\ Completes("register")
  /\ Completes("getCurrentUser")
  /\ [](\A op \in {"checkAuth", "login", "register", "getCurrentUser"} :
          (last.op = op /\ last.outcome \in {"resolved", "rejected"}
             /\ last.path # "guard")
            => Completed(op))

\* checkAuth completed on a failure path with both flags reset.
C29_Witness ==
  /\ Completed("checkAuth")
  /\ CheckAuthFetchFailed(last)
  /\ last.respErr = "auth"

=============================================================================
